---- MODULE Spec2Model ----
(***************************************************************************)
(* Model of custom_components/winix/manager.py: the WinixManager           *)
(* coordinator (device-wrapper collection, prepare, sequential refresh      *)
(* cycle) and the WinixEntity adapter (cached identity, live availability). *)
(*                                                                         *)
(* Python objects are kept in heaps: `heap` holds the WinixDeviceWrapper    *)
(* objects ever constructed (a wrapper's identity is its index), and        *)
(* `entities` the WinixEntity objects.  Strings that the code converts      *)
(* character by character (the MAC address, str.lower) are sequences of     *)
(* one-character strings; strings that are only concatenated or copied are  *)
(* TLA+ strings.                                                            *)
(***************************************************************************)
EXTENDS Integers, Sequences, FiniteSets, TLC

VARIABLES
    device_wrappers,  \* WinixManager._device_wrappers: None or a list of wrapper ids
    heap,             \* the WinixDeviceWrapper objects constructed so far
    entities,         \* the WinixEntity objects constructed so far
    cycle,            \* the async_update coroutine: its iterator, its trace, its result
    prepared,         \* history: the latest call of async_prepare_devices_wrappers
    refreshed,        \* history: the wrappers whose update() has completed
    mutations         \* history: number of stub mutations performed

vars == <<device_wrappers, heap, entities, cycle, prepared, refreshed, mutations>>

----------------------------------------------------------------------------
(* Bounds of the model *)

\* longest device-stub list the account service returns
MaxDevices == 2
\* number of WinixDeviceWrapper objects constructed over a run
MaxWrappers == 2
\* number of times a stub's attributes are rebound over a run
MaxMutations == 1

----------------------------------------------------------------------------
(* Values *)

\* Python's None, for a wrapper's state snapshot
PyNone == "None"

\* the state snapshot a successful wrapper refresh stores (opaque to this layer)
Snapshot == "snapshot"

\* an optional list: None, or a list object
NoneList == [is_none |-> TRUE, list |-> <<>>]

ListOf(s) == [is_none |-> FALSE, list |-> s]

\* the device stubs the account service knows: the first two addresses differ
\* only in letter case
DeviceStubs ==
    { [mac |-> <<"A", "b">>, alias |-> "Bedroom", model |-> "C545", sw_version |-> "1.0.0"],
      [mac |-> <<"a", "B">>, alias |-> "Office",  model |-> "C545", sw_version |-> "1.0.1"],
      [mac |-> <<"C", "d">>, alias |-> "Bedroom", model |-> "C535", sw_version |-> "1.0.0"] }

\* the lists of stubs the account service can return
StubLists == UNION { [1..n -> DeviceStubs] : n \in 0..MaxDevices }

\* the error kinds the account service call fails with
ErrorKinds == {"WinixException", "ClientError"}

\* what awaiting Helpers.async_get_device_stubs yields: an exception or a list
ServiceResponses ==
    { [raised |-> TRUE, error |-> e, stubs |-> <<>>] : e \in ErrorKinds }
    \cup { [raised |-> FALSE, error |-> PyNone, stubs |-> l] : l \in StubLists }

----------------------------------------------------------------------------
(* Pure functions *)

\* str.lower on one character
LowerChar(c) ==
    CASE c = "A" -> "a"
      [] c = "B" -> "b"
      [] c = "C" -> "c"
      [] c = "D" -> "d"
      [] OTHER -> c

\* a mutant of str_lower: the address is kept as the service spelled it
str_lower_Identity(s) == s

\* device_stub.mac.lower()
str_lower(s) == [i \in 1..Len(s) |-> LowerChar(s[i])]

\* the constants of the module
WINIX_DOMAIN == "winix"

Manufacturer == "Winix"

\* WinixDeviceWrapper(client, device_stub, _LOGGER): a wrapper bound to its stub,
\* its state absent until the first successful refresh
WinixDeviceWrapper(device_stub) == [device_stub |-> device_stub, state |-> PyNone]

\* WinixDeviceWrapper.get_state()
get_state(w) == heap[w].state

----------------------------------------------------------------------------
(* WinixEntity *)

\* WinixEntity.__init__(wrapper, coordinator): the address key, the display name
\* and the device-metadata record are computed from the stub's attributes as
\* they are now.  built_from is history: the stub as it was at construction.
WinixEntity_init(wrapper) ==
    LET device_stub == heap[wrapper].device_stub
        mac == str_lower(device_stub.mac)
        name == "Winix " \o device_stub.alias
    IN  [ _mac |-> mac,
          _wrapper |-> wrapper,
          _name |-> name,
          _device_info |-> [ identifiers |-> {<<WINIX_DOMAIN, mac>>},
                             name |-> name,
                             manufacturer |-> Manufacturer,
                             model |-> device_stub.model,
                             sw_version |-> device_stub.sw_version ],
          built_from |-> device_stub ]

\* a mutant of name: the name is formatted from the stub on every call
name_Live(e) == "Winix " \o heap[entities[e]._wrapper].device_stub.alias

\* WinixEntity.name
name(e) == entities[e]._name

\* WinixEntity.device_info
device_info(e) == entities[e]._device_info

\* a mutant of available: the answer is the one computed when the wrapper was
\* constructed
available_Cached(e) == WinixDeviceWrapper(heap[entities[e]._wrapper].device_stub).state # PyNone

\* WinixEntity.available
available(e) == get_state(entities[e]._wrapper) # PyNone

----------------------------------------------------------------------------
(* WinixManager *)

\* WinixManager.get_device_wrappers(): the collection itself, unset or not
get_device_wrappers == device_wrappers

\* a mutant of NewWrappers: every wrapper is bound to the last stub of the list
\* (the loop variable captured late)
NewWrappers_LastStub(device_stubs) ==
    [i \in 1..Len(device_stubs) |-> WinixDeviceWrapper(device_stubs[Len(device_stubs)])]

\* the loop of async_prepare_devices_wrappers: one wrapper per stub, appended
\* in the order of the stubs
NewWrappers(device_stubs) ==
    [i \in 1..Len(device_stubs) |-> WinixDeviceWrapper(device_stubs[i])]

\* a mutant of PreparedCollection: the collection is reset before the account
\* service is awaited, so a failed call leaves it empty
PreparedCollection_ResetFirst(resp) ==
    IF resp.raised
    THEN ListOf(<<>>)
    ELSE IF resp.stubs # <<>>
         THEN ListOf([i \in 1..Len(resp.stubs) |-> Len(heap) + i])
         ELSE device_wrappers

\* a mutant of PreparedCollection: an empty device list clears the collection
\* back to None
PreparedCollection_EmptyUnsets(resp) ==
    IF resp.raised
    THEN device_wrappers
    ELSE IF resp.stubs # <<>>
         THEN ListOf([i \in 1..Len(resp.stubs) |-> Len(heap) + i])
         ELSE NoneList

\* self._device_wrappers after async_prepare_devices_wrappers: untouched when the
\* awaited call raises (nothing runs after it) or returns a falsy list, and a
\* new list of the new wrappers otherwise
PreparedCollection(resp) ==
    IF resp.raised
    THEN device_wrappers
    ELSE IF resp.stubs # <<>>
         THEN ListOf([i \in 1..Len(resp.stubs) |-> Len(heap) + i])
         ELSE device_wrappers

\* what async_prepare_devices_wrappers gives its caller: the service's exception
\* as it is (there is no handler), or True
PrepareOutcome(resp) ==
    IF resp.raised
    THEN [raised |-> TRUE, error |-> resp.error, value |-> PyNone]
    ELSE [raised |-> FALSE, error |-> PyNone, value |-> TRUE]

\* the history of the calls of async_prepare_devices_wrappers before the first
NeverPrepared ==
    [ called |-> FALSE,
      resp |-> [raised |-> FALSE, error |-> PyNone, stubs |-> <<>>],
      outcome |-> [raised |-> FALSE, error |-> PyNone, value |-> PyNone],
      before |-> NoneList,
      base |-> 0 ]

\* WinixManager.async_prepare_devices_wrappers, with the response of the account
\* service.  The statements after the await run without suspension.  The
\* history keeps the response, what the caller got, the collection as it was
\* before the call and the number of wrappers constructed before it.
async_prepare_devices_wrappers(resp) ==
    /\ Len(heap) + Len(resp.stubs) <= MaxWrappers
    /\ device_wrappers' = PreparedCollection(resp)
    /\ heap' = IF ~resp.raised /\ resp.stubs # <<>>
               THEN heap \o NewWrappers(resp.stubs)
               ELSE heap
    /\ prepared' = [ called |-> TRUE,
                     resp |-> resp,
                     outcome |-> PrepareOutcome(resp),
                     before |-> device_wrappers,
                     base |-> Len(heap) ]
    /\ UNCHANGED <<entities, cycle, refreshed, mutations>>

\* the outcomes of awaiting one wrapper's update(): it completes, or it raises
UpdateOutcomes ==
    { [raised |-> FALSE, error |-> PyNone],
      [raised |-> TRUE, error |-> "WinixException"] }

\* WinixDeviceWrapper.update(): a completed refresh stores the fetched state
\* snapshot in the wrapper; a failed one leaves the wrapper as it was
update(w, outcome) ==
    IF outcome.raised
    THEN heap
    ELSE [heap EXCEPT ![w].state = Snapshot]

\* the coroutine of async_update before it is first called
NoCycle ==
    [ running |-> FALSE, list |-> NoneList, invoked |-> <<>>, completed |-> <<>>,
      result |-> "none", error |-> PyNone ]

\* a mutant of StartedCycle: an unset collection is iterated as an empty one
StartedCycle_NoneAsEmpty(coll) ==
    IF coll.is_none \/ coll.list = <<>>
    THEN [ running |-> FALSE, list |-> coll, invoked |-> <<>>, completed |-> <<>>,
           result |-> "returned", error |-> PyNone ]
    ELSE [ running |-> TRUE, list |-> coll, invoked |-> <<coll.list[1]>>,
           completed |-> <<>>, result |-> "none", error |-> PyNone ]

\* async_update from its call to its first suspension: `for device_wrapper in
\* self._device_wrappers` takes an iterator over the list object that is the
\* collection now (iterating None raises TypeError; an empty list ends the loop
\* at once), and the first wrapper's update() is called and awaited
StartedCycle(coll) ==
    IF coll.is_none
    THEN [ running |-> FALSE, list |-> coll, invoked |-> <<>>, completed |-> <<>>,
           result |-> "raised", error |-> "TypeError" ]
    ELSE IF coll.list = <<>>
         THEN [ running |-> FALSE, list |-> coll, invoked |-> <<>>, completed |-> <<>>,
                result |-> "returned", error |-> PyNone ]
         ELSE [ running |-> TRUE, list |-> coll, invoked |-> <<coll.list[1]>>,
                completed |-> <<>>, result |-> "none", error |-> PyNone ]

\* a mutant of ResumedCycle: a wrapper's failure is caught and the loop goes on
\* to the next wrapper
ResumedCycle_ContinueOnError(c, outcome) ==
    LET done == IF outcome.raised THEN c.completed
                ELSE Append(c.completed, c.invoked[Len(c.invoked)])
    IN  IF Len(c.invoked) < Len(c.list.list)
        THEN [ c EXCEPT !.completed = done,
                        !.invoked = Append(@, c.list.list[Len(c.invoked) + 1]) ]
        ELSE [ c EXCEPT !.completed = done, !.running = FALSE, !.result = "returned" ]

\* async_update from the completion of the awaited update() to the next
\* suspension or to its end: an exception leaves the coroutine at once (there is
\* no handler); otherwise the loop calls the next wrapper's update(), or returns
\* when the iterator is exhausted
ResumedCycle(c, outcome) ==
    IF outcome.raised
    THEN [ c EXCEPT !.running = FALSE, !.result = "raised", !.error = outcome.error ]
    ELSE LET done == Append(c.completed, c.invoked[Len(c.invoked)])
         IN  IF Len(c.invoked) < Len(c.list.list)
             THEN [ c EXCEPT !.completed = done,
                             !.invoked = Append(@, c.list.list[Len(c.invoked) + 1]) ]
             ELSE [ c EXCEPT !.completed = done, !.running = FALSE,
                             !.result = "returned" ]

\* WinixManager._async_update_data / async_update: the scheduler starts a
\* refresh cycle (one cycle at a time)
async_update_start ==
    /\ ~cycle.running
    /\ cycle' = StartedCycle(device_wrappers)
    /\ UNCHANGED <<device_wrappers, heap, entities, prepared, refreshed, mutations>>

\* the awaited update() of the wrapper called last completes or raises, and
\* async_update runs on to its next suspension
async_update_resume(outcome) ==
    /\ cycle.running
    /\ heap' = update(cycle.invoked[Len(cycle.invoked)], outcome)
    /\ cycle' = ResumedCycle(cycle, outcome)
    /\ refreshed' = IF outcome.raised
                    THEN refreshed
                    ELSE refreshed \cup {cycle.invoked[Len(cycle.invoked)]}
    /\ UNCHANGED <<device_wrappers, entities, prepared, mutations>>

----------------------------------------------------------------------------
(* The host platform and the entities *)

\* the entity of a wrapper, if one was constructed
HasEntity(w) == \E e \in 1..Len(entities) : entities[e]._wrapper = w

\* the platform set-up: one WinixEntity for each wrapper of the collection that
\* has none yet, in collection order
AddEntities ==
    /\ ~get_device_wrappers.is_none
    /\ \E i \in 1..Len(get_device_wrappers.list) : ~HasEntity(get_device_wrappers.list[i])
    /\ LET fresh == SelectSeq(get_device_wrappers.list, LAMBDA w : ~HasEntity(w))
       IN  entities' = entities \o [i \in 1..Len(fresh) |-> WinixEntity_init(fresh[i])]
    /\ UNCHANGED <<device_wrappers, heap, cycle, prepared, refreshed, mutations>>

\* the attributes of the stub of a wrapper that has an entity are rebound to
\* those of another device
MutateStub(w, s) ==
    /\ mutations < MaxMutations
    /\ HasEntity(w)
    /\ heap[w].device_stub # s
    /\ heap' = [heap EXCEPT ![w].device_stub = s]
    /\ mutations' = mutations + 1
    /\ UNCHANGED <<device_wrappers, entities, cycle, prepared, refreshed>>

----------------------------------------------------------------------------
(* The specification *)

\* WinixManager.__init__: the collection is None; no wrapper, no entity yet
Init ==
    /\ device_wrappers = NoneList
    /\ heap = <<>>
    /\ entities = <<>>
    /\ cycle = NoCycle
    /\ prepared = NeverPrepared
    /\ refreshed = {}
    /\ mutations = 0

Next ==
    \/ \E resp \in ServiceResponses : async_prepare_devices_wrappers(resp)
    \/ async_update_start
    \/ \E outcome \in UpdateOutcomes : async_update_resume(outcome)
    \/ AddEntities

\* the program: the device stubs are never mutated
Spec == Init /\ [][Next]_vars

\* the program, with stubs whose attributes are rebound behind its back
NextWithMutation ==
    \/ Next
    \/ \E w \in 1..Len(heap) : \E s \in DeviceStubs : MutateStub(w, s)

SpecStubMutation == Init /\ [][NextWithMutation]_vars

----------------------------------------------------------------------------
(* Properties *)

\* the wrappers of the collection, as a set
InCollection(w) ==
    /\ ~device_wrappers.is_none
    /\ \E i \in 1..Len(device_wrappers.list) : device_wrappers.list[i] = w

\* the entities constructed for the wrappers of the current collection
CollectionEntities == { e \in 1..Len(entities) : InCollection(entities[e]._wrapper) }

\* two characters that are the same letter, whatever their case
SameChar(x, y) ==
    \/ x = y
    \/ <<x, y>> \in {<<"A", "a">>, <<"B", "b">>, <<"C", "c">>, <<"D", "d">>}
    \/ <<y, x>> \in {<<"A", "a">>, <<"B", "b">>, <<"C", "c">>, <<"D", "d">>}

\* two addresses that are equal ignoring letter case
SameAddress(a, b) ==
    /\ Len(a) = Len(b)
    /\ \A i \in 1..Len(a) : SameChar(a[i], b[i])

\* the latest prepare call returned True
PrepareReturned == prepared.called /\ ~prepared.resp.raised

\* the latest prepare call got an exception from the account service
PrepareFailed == prepared.called /\ prepared.resp.raised

\* C1: when the account service returns an empty device list, prepare returns
\* True and the wrapper collection is afterwards an empty list (the manager is
\* ready with zero wrappers, not unset).
C1_EmptyListLeavesEmptyCollection ==
    (PrepareReturned /\ prepared.resp.stubs = <<>>)
        => /\ prepared.outcome.value = TRUE
           /\ device_wrappers = ListOf(<<>>)

\* C2: after prepare returns for a non-empty stub list, the collection has the
\* length of the stub list, its i-th wrapper is bound to the i-th stub, and the
\* wrappers are distinct objects (one per stub, order kept, none skipped or
\* duplicated).
C2_OneWrapperPerStubInOrder ==
    (PrepareReturned /\ prepared.resp.stubs # <<>>)
        => /\ prepared.outcome.value = TRUE
           /\ ~device_wrappers.is_none
           /\ Len(device_wrappers.list) = Len(prepared.resp.stubs)
           /\ \A i \in 1..Len(device_wrappers.list) :
                 /\ device_wrappers.list[i] \in 1..Len(heap)
                 /\ heap[device_wrappers.list[i]].device_stub = prepared.resp.stubs[i]
           /\ \A i, j \in 1..Len(device_wrappers.list) :
                 i # j => device_wrappers.list[i] # device_wrappers.list[j]

\* a prepare call has returned for a list of two different stubs
C2_Witness ==
    /\ PrepareReturned
    /\ Len(prepared.resp.stubs) = 2
    /\ prepared.resp.stubs[1] # prepared.resp.stubs[2]
    /\ ~device_wrappers.is_none

\* C3: when the account service call fails, prepare gives its caller that same
\* failure (no success indicator), and the collection and the wrappers are as
\* they were before the call; on a fresh manager the collection stays unset.
C3_FailurePropagatesCollectionUntouched ==
    PrepareFailed
        => /\ prepared.outcome.raised
           /\ prepared.outcome.error = prepared.resp.error
           /\ prepared.outcome.value = PyNone
           /\ device_wrappers = prepared.before
           /\ Len(heap) = prepared.base
           /\ (prepared.base = 0 => device_wrappers.is_none)

\* a prepare call has failed on a manager whose collection was already set to
\* two wrappers
C3_Witness ==
    /\ PrepareFailed
    /\ ~prepared.before.is_none
    /\ Len(device_wrappers.list) = 2

\* the list a refresh cycle iterates over
CycleList == cycle.list.list

\* C4: in one refresh cycle over a ready manager the wrappers' refreshes are
\* invoked in collection order, each at most once, each only after the one
\* before it has completed; a cycle that returns has refreshed every wrapper
\* exactly once; a cycle in which the refresh at position k raised has invoked
\* nothing after position k and ended with that exception.
C4_SequentialRefreshStopsAtFirstFailure ==
    (cycle.running \/ (~cycle.list.is_none /\ cycle.result # "none"))
        => /\ Len(cycle.invoked) <= Len(CycleList)
           /\ cycle.invoked = SubSeq(CycleList, 1, Len(cycle.invoked))
           /\ \A i, j \in 1..Len(cycle.invoked) :
                 i # j => cycle.invoked[i] # cycle.invoked[j]
           /\ Len(cycle.completed) <= Len(cycle.invoked)
           /\ cycle.completed = SubSeq(cycle.invoked, 1, Len(cycle.completed))
           /\ (cycle.running
                 => /\ cycle.result = "none"
                    /\ Len(cycle.invoked) = Len(cycle.completed) + 1)
           /\ (cycle.result = "returned"
                 => /\ cycle.invoked = CycleList
                    /\ cycle.completed = CycleList
                    /\ cycle.error = PyNone)
           /\ (cycle.result = "raised"
                 => /\ Len(cycle.invoked) = Len(cycle.completed) + 1
                    /\ cycle.error = "WinixException")

\* a cycle over two wrappers ended when the refresh of the first one raised: the
\* second was never invoked
C4_Witness ==
    /\ ~cycle.list.is_none
    /\ cycle.result = "raised"
    /\ Len(CycleList) = 2
    /\ cycle.invoked = <<CycleList[1]>>
    /\ cycle.completed = <<>>

\* C5: an entity is available exactly when its wrapper's state snapshot is not
\* None at that moment: not available while its wrapper has never completed a
\* refresh, available once it has.
C5_AvailableIffStatePresent ==
    \A e \in 1..Len(entities) :
        /\ available(e) = (heap[entities[e]._wrapper].state # PyNone)
        /\ available(e) = (entities[e]._wrapper \in refreshed)

\* an entity constructed before any refresh whose wrapper has since been
\* refreshed, beside one whose wrapper has not
C5_Witness ==
    /\ \E e \in 1..Len(entities) : available(e) /\ entities[e]._wrapper \in refreshed
    /\ \E e \in 1..Len(entities) : ~available(e)

\* C6 as claimed: the address keys of the entities of the collection are
\* pairwise distinct, whatever stub list the account service returned.
C6_KeysPairwiseDistinct ==
    \A e1, e2 \in CollectionEntities :
        e1 # e2 => entities[e1]._mac # entities[e2]._mac

\* C6 as amended: the address keys of two entities of the collection are equal
\* exactly when their stubs' addresses are equal ignoring letter case, so the
\* keys are pairwise distinct exactly for the stub lists whose addresses are.
C6_KeysDistinctIffAddressesDistinct ==
    \A e1, e2 \in CollectionEntities :
        e1 # e2 =>
            ( (entities[e1]._mac = entities[e2]._mac)
                <=> SameAddress(entities[e1].built_from.mac, entities[e2].built_from.mac) )

\* the collection has two entities, for stubs whose addresses differ in more
\* than letter case, and their keys differ
C6_Witness ==
    \E e1, e2 \in CollectionEntities :
        /\ e1 # e2
        /\ ~SameAddress(entities[e1].built_from.mac, entities[e2].built_from.mac)
        /\ entities[e1]._mac # entities[e2]._mac

\* C7: an entity's name, address key and device metadata are those computed
\* from the stub as it was at construction, whatever has happened since
\* (refresh cycles, state changes, rebinding of the stub's attributes).
C7_IdentityFixedAtConstruction ==
    \A e \in 1..Len(entities) :
        LET stub == entities[e].built_from
        IN  /\ name(e) = "Winix " \o stub.alias
            /\ entities[e]._mac = str_lower(stub.mac)
            /\ device_info(e) =
                  [ identifiers |-> {<<WINIX_DOMAIN, str_lower(stub.mac)>>},
                    name |-> "Winix " \o stub.alias,
                    manufacturer |-> "Winix",
                    model |-> stub.model,
                    sw_version |-> stub.sw_version ]

\* an entity whose stub has had its alias, address, model and firmware version
\* rebound since construction, and whose wrapper has been refreshed
C7_Witness ==
    \E e \in 1..Len(entities) :
        LET now == heap[entities[e]._wrapper].device_stub
            then == entities[e].built_from
        IN  /\ now.alias # then.alias
            /\ now.mac # then.mac
            /\ now.model # then.model
            /\ now.sw_version # then.sw_version
            /\ entities[e]._wrapper \in refreshed
            /\ name(e) = "Winix Bedroom"

\* C8: after any prepare call that returned, the wrappers of the collection are
\* those constructed by that call for exactly the stubs it received, in order,
\* and no wrapper constructed before the call is among them (an unset
\* collection holds no wrapper).
C8_CollectionReplacedWholesale ==
    PrepareReturned
        => /\ Len(device_wrappers.list) = Len(prepared.resp.stubs)
           /\ \A i \in 1..Len(device_wrappers.list) :
                 /\ device_wrappers.list[i] > prepared.base
                 /\ heap[device_wrappers.list[i]].device_stub = prepared.resp.stubs[i]

\* C9: the manager starts with the collection unset; only a prepare step takes
\* it from unset to set; once set it is never unset again.
C9_PrepareOnlyWayToReadyNoWayBack ==
    /\ device_wrappers.is_none
    /\ [][ /\ (device_wrappers.is_none /\ ~device_wrappers'.is_none)
                => \E resp \in ServiceResponses :
                      /\ ~resp.raised
                      /\ async_prepare_devices_wrappers(resp)
           /\ (~device_wrappers.is_none => ~device_wrappers'.is_none) ]_vars

\* a ready manager on which a second prepare returned for an empty list, a
\* refresh cycle has returned and entities have been constructed
C9_Witness ==
    /\ ~device_wrappers.is_none
    /\ PrepareReturned
    /\ prepared.resp.stubs = <<>>
    /\ cycle.result = "returned"
    /\ entities # <<>>

\* C10: a refresh cycle started while the collection is unset ends in an error
\* at once, invokes no wrapper's refresh and changes nothing of the manager, its
\* wrappers or its entities; a cycle returns without invoking anything only if
\* the collection is set and empty.
C10_UnsetCollectionCycleRaises ==
    [][ async_update_start
          => /\ (device_wrappers.is_none
                   => /\ ~cycle'.running
                      /\ cycle'.result = "raised"
                      /\ cycle'.error = "TypeError"
                      /\ cycle'.invoked = <<>>
                      /\ UNCHANGED <<device_wrappers, heap, entities, refreshed>>)
             /\ ((cycle'.result = "returned" /\ cycle'.invoked = <<>>)
                   => (~device_wrappers.is_none /\ device_wrappers.list = <<>>)) ]_vars

\* a cycle has ended in TypeError on a manager whose collection a returned
\* prepare call (empty device list) left unset
C10_Witness ==
    /\ cycle.list.is_none
    /\ cycle.result = "raised"
    /\ cycle.error = "TypeError"
    /\ PrepareReturned
    /\ device_wrappers.is_none

====
